---- MODULE Spec2Model ----
(***************************************************************************)
(* BS-Solctra (Rust/MPI/rayon): field-line tracer.                          *)
(*                                                                         *)
(* Model of src/src/main.rs (one process per MPI rank) and of              *)
(* src/src/simulation.rs (geometry precompute, field evaluator, RK4 step,  *)
(* step loop with checkpoints).                                            *)
(*                                                                         *)
(* Numbers.  Coordinates are f64 in the program.  The model places every   *)
(* point on an integer lattice whose unit is step_size / 6, so that the    *)
(* RK4 combination (k1 + 2 k2 + 2 k3 + k4) / 6 and the midpoints k / 2 are *)
(* exact, and it keeps one extra value, NaNPt, for a point with a          *)
(* non-finite coordinate.  Vectors whose norm is taken (field values,      *)
(* coil segments) are axis-aligned, so the norm is an integer.  The        *)
(* containment test is decided exactly (see Distance2GreaterThan).         *)
(***************************************************************************)
EXTENDS Integers, Sequences, FiniteSets, TLC

VARIABLES
    args,             \* command line: world_size, num_particles, steps, write_frequency
    particle_file,    \* contents of args.particles_file
    coil_dir,         \* contents of args.resource_path: one file per coil, sorted
    pc,               \* position of each rank in main / simulate_particles
    inflight,         \* scatter: the chunk sent by the root to each rank, not yet received
    local_particles,  \* each rank's partition (the slice handed to simulate_particles)
    geom,             \* each rank's coils, displacements and e_roof
    step,             \* each rank's loop variable of simulate_particles
    range_end,        \* each rank's value of total_steps + 1 (the end of the range)
    pending,          \* slots the parallel iterator of the current step has not visited yet
    out,              \* the checkpoints each rank has written, in order
    calls,            \* history: number of simulate_step applications per slot
    visits,           \* history: number of loop iterations that have visited each slot
    arrived,          \* number of barriers each rank has entered
    reported,         \* rank 0 has logged "Finished simulation"
    geo,              \* the geometry precompute on its own (SpecGeom)
    stp               \* simulate_step on its own (SpecStep)

vars == <<args, particle_file, coil_dir, pc, inflight, local_particles, geom, step,
          range_end, pending, out, calls, visits, arrived, reported, geo, stp>>

runVars == <<args, particle_file, coil_dir, pc, inflight, local_particles, geom, step,
             range_end, pending, out, calls, visits, arrived, reported>>

(***************************************************************************)
(* Bounds of the model.                                                    *)
(***************************************************************************)
MaxWorkers == 2
MaxParticles == 2
MaxSteps == 2
MaxFreq == 2
MaxCoils == 2
MaxNodes == 3

(***************************************************************************)
(* Program constants, in lattice units.                                    *)
(***************************************************************************)
\* usize::MAX, cut to the largest integer TLC represents: no file is that long
UsizeMax == 2147483647
StepSize == 6
MINOR_RADIUS == 6
MAJOR_RADIUS == 12

Min(a, b) == IF a < b THEN a ELSE b
Abs(a) == IF a < 0 THEN -a ELSE a

(***************************************************************************)
(* point::Point                                                            *)
(***************************************************************************)
Pt(x, y, z) == [nan |-> FALSE, x |-> x, y |-> y, z |-> z]
NaNPt == [nan |-> TRUE, x |-> 0, y |-> 0, z |-> 0]
ZeroPt == Pt(0, 0, 0)

\* derived PartialEq of Point: a NaN coordinate is equal to nothing
PointEq(p, q) == ~p.nan /\ ~q.nan /\ p.x = q.x /\ p.y = q.y /\ p.z = q.z

\* a.get_displacement(b) = a - b
get_displacement(a, b) ==
    IF a.nan \/ b.nan THEN NaNPt ELSE Pt(a.x - b.x, a.y - b.y, a.z - b.z)

\* norm of an axis-aligned vector
get_norm(v) == Abs(v.x) + Abs(v.y) + Abs(v.z)

\* v / |v| and then * s, component by component: 0 / 0 is NaN
ScaledUnit(v, s) ==
    IF v.nan \/ get_norm(v) = 0 THEN NaNPt
    ELSE Pt((v.x \div get_norm(v)) * s, (v.y \div get_norm(v)) * s,
            (v.z \div get_norm(v)) * s)

get_unit_vector(v) == ScaledUnit(v, 1)

(***************************************************************************)
(* Geometry precompute.                                                    *)
(***************************************************************************)
\* slice::windows(2)
Windows2(s) ==
    [i \in 1..(IF Len(s) < 2 THEN 0 ELSE Len(s) - 1) |-> <<s[i], s[i + 1]>>]

\* slice::chunks(2)
Chunks2(s) ==
    [i \in 1..((Len(s) + 1) \div 2) |->
        IF 2 * i <= Len(s) THEN <<s[2 * i - 1], s[2 * i]>> ELSE <<s[2 * i - 1]>>]

\* Iterator::zip: stops with the shorter of the two
Zip(s, t) == [i \in 1..Min(Len(s), Len(t)) |-> <<s[i], t[i]>>]

compute_displacements_chunks(coil) ==
    [i \in 1..(Len(coil) \div 2) |->
        get_displacement(Chunks2(coil)[i][2], Chunks2(coil)[i][1])]

compute_displacements(coil) ==
    [i \in DOMAIN Windows2(coil) |->
        get_displacement(Windows2(coil)[i][2], Windows2(coil)[i][1])]

compute_all_displacements(coils) ==
    [c \in DOMAIN coils |-> compute_displacements(coils[c])]

compute_e_roof(coil_displacements) ==
    [i \in DOMAIN coil_displacements |-> get_unit_vector(coil_displacements[i])]

compute_all_e_roof(all_displacements) ==
    [c \in DOMAIN all_displacements |-> compute_e_roof(all_displacements[c])]

\* The pairing of the two nested zips of compute_magnetic_field: for coil c, the
\* sequence of (segment endpoints, e_roof entry, displacement entry) it visits.
SegmentsOfCoil(coil, e_roof_slice, displacement_slice) ==
    LET inner == Zip(Windows2(coil), Zip(e_roof_slice, displacement_slice))
    IN  [i \in DOMAIN inner |->
            [n0 |-> inner[i][1][1], n1 |-> inner[i][1][2],
             e |-> inner[i][2][1], d |-> inner[i][2][2]]]

FieldSegments(coils, displacements, e_roof) ==
    LET outer == Zip(Zip(coils, e_roof), displacements)
    IN  [c \in DOMAIN outer |->
            SegmentsOfCoil(outer[c][1][1], outer[c][1][2], outer[c][2])]

(***************************************************************************)
(* Field evaluator.                                                        *)
(*                                                                         *)
(* The value of compute_magnetic_field is a sum of floating-point          *)
(* Biot-Savart terms.  The model keeps the cases the arithmetic decides    *)
(* exactly and draws every other value from `finite`, a set of lattice     *)
(* field vectors (the zero vector among them: a point collinear with every *)
(* segment has u x v = 0 in every term):                                   *)
(*   - no (coil, e_roof, displacement) triple yields a segment: b stays    *)
(*     (0, 0, 0);                                                          *)
(*   - the point is an endpoint of a visited segment: rmi_a_norm or        *)
(*     rmf_a_norm is 0, c is inf * inf and v has 0 * inf or inf - inf      *)
(*     terms, so b is NaN;                                                 *)
(*   - a visited segment has a NaN e_roof or displacement: b is NaN;       *)
(*   - the point itself is NaN: b is NaN.                                  *)
(***************************************************************************)
SegmentSet(coils, displacements, e_roof) ==
    LET segs == FieldSegments(coils, displacements, e_roof)
    IN  UNION {{segs[c][i] : i \in DOMAIN segs[c]} : c \in DOMAIN segs}

compute_magnetic_field(particle, coils, displacements, e_roof, finite) ==
    LET all == SegmentSet(coils, displacements, e_roof)
    IN  IF particle.nan THEN {NaNPt}
        ELSE IF \E s \in all : s.e.nan \/ s.d.nan \/ PointEq(particle, s.n0)
                                  \/ PointEq(particle, s.n1)
             THEN {NaNPt}
        ELSE IF all = {} THEN {ZeroPt}
        ELSE finite

(***************************************************************************)
(* Integrator.                                                             *)
(***************************************************************************)
AddPt(a, b) == IF a.nan \/ b.nan THEN NaNPt ELSE Pt(a.x + b.x, a.y + b.y, a.z + b.z)

\* v / n for a lattice vector whose components are multiples of n
DivPt(v, n) == IF v.nan THEN NaNPt ELSE Pt(v.x \div n, v.y \div n, v.z \div n)

MulPt(v, n) == IF v.nan THEN NaNPt ELSE Pt(v.x * n, v.y * n, v.z * n)

divergent_particle == Pt(MINOR_RADIUS, MINOR_RADIUS, MINOR_RADIUS)

\* particle + (k1 + 2 k2 + 2 k3 + k4) / 6
RK4Result(particle, k1, k2, k3, k4) ==
    AddPt(particle, DivPt(AddPt(AddPt(k1, MulPt(k2, 2)), AddPt(MulPt(k3, 2), k4)), 6))

\* `distance > MINOR_RADIUS` as the code computes it.  With n = |(x, y, 0)|,
\* origin = MAJOR_RADIUS * (x, y, 0) / n and distance^2 = (n - R)^2 + z^2, so for
\* n > 0:  distance > a  <=>  L > 2 R n  <=>  L > 0 /\ L^2 > 4 R^2 n^2,  where
\* L = n^2 + z^2 + R^2 - a^2.  For n = 0 the origin is 0 / 0 = NaN, the distance is
\* NaN and the comparison is false; so it is for a NaN result.
Distance2GreaterThan(result, minor) ==
    LET n2 == result.x * result.x + result.y * result.y
        L  == n2 + result.z * result.z + MAJOR_RADIUS * MAJOR_RADIUS - minor * minor
    IN  /\ ~result.nan
        /\ n2 # 0
        /\ L > 0
        /\ L * L > 4 * MAJOR_RADIUS * MAJOR_RADIUS * n2

Containment(result) ==
    IF Distance2GreaterThan(result, MINOR_RADIUS) THEN divergent_particle ELSE result

\* Every run of simulate_step on `particle`: the four normalised stages, the RK4
\* result and the returned point.
simulate_step_runs(particle, coils, displacements, e_roof, step_size, finite) ==
    LET B(q)  == compute_magnetic_field(q, coils, displacements, e_roof, finite)
        K(b)  == ScaledUnit(b, step_size)
        P1(k) == AddPt(DivPt(k, 2), particle)
        P3(k) == AddPt(k, particle)
        Run(k1, k2, k3, k4) ==
            [k1 |-> k1, k2 |-> k2, k3 |-> k3, k4 |-> k4,
             rk4 |-> RK4Result(particle, k1, k2, k3, k4),
             result |-> Containment(RK4Result(particle, k1, k2, k3, k4))]
    IN  UNION {UNION {UNION {{Run(K(b1), K(b2), K(b3), K(b4)) :
                                b4 \in B(P3(K(b3)))} :
                             b3 \in B(P1(K(b2)))} :
                      b2 \in B(P1(K(b1)))} :
               b1 \in B(particle)}

simulate_step(particle, coils, displacements, e_roof, step_size, finite) ==
    {r.result :
        r \in simulate_step_runs(particle, coils, displacements, e_roof, step_size, finite)}

(***************************************************************************)
(* Inputs of the model.                                                    *)
(***************************************************************************)
SeqsUpTo(S, n) == UNION {[1..k -> S] : k \in 0..n}

\* nodes of the coils of SpecGeom
GeoNodes == {Pt(18, 0, 0), Pt(18, 0, 12)}
GeoCoilSets == SeqsUpTo(SeqsUpTo(GeoNodes, MaxNodes), MaxCoils)

\* a coil of two segments around the cross-section, a coil file with one node
CoilA == <<Pt(18, 0, 0), Pt(18, 0, 12), Pt(6, 0, 12)>>
CoilShort == <<Pt(18, 0, 0)>>

\* lattice field vectors: the null field and fields along +-x and +-z
StepFields == {ZeroPt, Pt(2, 0, 0), Pt(-2, 0, 0), Pt(0, 0, 2), Pt(0, 0, -2)}
StepSeeds == {Pt(x, 0, z) : x \in {0, 6, 12, 18}, z \in {0, 6}}
StepCoilSets == {<<CoilA>>, <<CoilShort>>, <<CoilA, CoilShort>>}

(***************************************************************************)
(* SpecGeom: the geometry precompute and the pairing of the field          *)
(* evaluator, on every coil set of GeoCoilSets.                            *)
(***************************************************************************)
GeoIdle == [pc |-> "idle", coils |-> <<>>, displacements |-> <<>>, e_roof |-> <<>>,
            segments |-> <<>>]

GeoInit ==
    \E cs \in GeoCoilSets :
        geo = [pc |-> "coils", coils |-> cs, displacements |-> <<>>, e_roof |-> <<>>,
               segments |-> <<>>]

\* main.rs: let displacements = simulation::compute_all_displacements(&coils)
GeoDisplacements ==
    /\ geo.pc = "coils"
    /\ geo' = [geo EXCEPT !.pc = "displacements",
                          !.displacements = compute_all_displacements(geo.coils)]

\* main.rs: let e_roof = simulation::compute_all_e_roof(&displacements)
GeoERoof ==
    /\ geo.pc = "displacements"
    /\ geo' = [geo EXCEPT !.pc = "e_roof",
                          !.e_roof = compute_all_e_roof(geo.displacements)]

\* one evaluation of the field: the segments the nested zips visit
GeoField ==
    /\ geo.pc = "e_roof"
    /\ geo' = [geo EXCEPT !.pc = "field",
                          !.segments = FieldSegments(geo.coils, geo.displacements,
                                                     geo.e_roof)]

(***************************************************************************)
(* SpecStep: one application of simulate_step to every seed of StepSeeds,  *)
(* for every coil set of StepCoilSets and every field of StepFields.       *)
(***************************************************************************)
StpIdle == [pc |-> "idle", particle |-> ZeroPt, coils |-> <<>>,
            run |-> [k1 |-> ZeroPt, k2 |-> ZeroPt, k3 |-> ZeroPt, k4 |-> ZeroPt,
                     rk4 |-> ZeroPt, result |-> ZeroPt]]

StpInit ==
    \E p \in StepSeeds, cs \in StepCoilSets :
        stp = [StpIdle EXCEPT !.pc = "in", !.particle = p, !.coils = cs]

StpApply ==
    /\ stp.pc = "in"
    /\ \E r \in simulate_step_runs(stp.particle, stp.coils,
                                   compute_all_displacements(stp.coils),
                                   compute_all_e_roof(compute_all_displacements(stp.coils)),
                                   StepSize, StepFields) :
          stp' = [stp EXCEPT !.pc = "out", !.run = r]

(***************************************************************************)
(* The run: main.rs on every rank, simulate_particles inside it.           *)
(***************************************************************************)
Ranks == 0..(args.world_size - 1)

\* main.rs: let particles_per_rank = max_particles / world_size as usize
particles_per_rank == args.num_particles \div args.world_size

\* seeds of the particle file: on the boundary of the cross-section, at its
\* centre, and already equal to the divergent value
RunSeeds == {Pt(12, 0, 6), Pt(12, 0, 0), divergent_particle}

\* the fields the evaluator finds where it is finite: null, or along +z
RunFields == {ZeroPt, Pt(0, 0, 2)}

CoilFile(points) == [readable |-> TRUE, points |-> points]
UnreadableFile == [readable |-> FALSE, points |-> <<>>]
RunCoilDirs == {<<CoilFile(CoilA)>>, <<CoilFile(CoilShort)>>,
                <<CoilFile(CoilA), CoilFile(CoilShort)>>,
                <<CoilFile(CoilA), UnreadableFile>>}

\* total_steps: u32.  The value u32::MAX is kept apart from the small ones:
\* [max |-> TRUE] stands for 4294967295.
U32(n) == [max |-> FALSE, n |-> n]
U32MAX == [max |-> TRUE, n |-> 0]
StepCounts == {U32(n) : n \in 0..MaxSteps} \cup {U32MAX}

Take(s, n) == SubSeq(s, 1, Min(Len(s), n))

\* point::read_from_file(path, max): the first `max` points of a readable file
read_from_file(file, max) ==
    IF file.readable THEN [ok |-> TRUE, points |-> Take(file.points, max)]
    ELSE [ok |-> FALSE, points |-> <<>>]

\* every file of the directory, in sorted order; the first Err is returned by `?`
read_coil_data_directory(dir) ==
    IF \E f \in DOMAIN dir : ~read_from_file(dir[f], UsizeMax).ok
    THEN [ok |-> FALSE, coils |-> <<>>]
    ELSE [ok |-> TRUE, coils |-> [f \in DOMAIN dir |-> read_from_file(dir[f], UsizeMax).points]]

\* MPI_Scatter from the root: rank r receives elements r * sendcount .. of sendbuf,
\* sendcount = sendbuf.count() / size
ScatterChunk(sendbuf, size, r) ==
    SubSeq(sendbuf, r * (Len(sendbuf) \div size) + 1, (r + 1) * (Len(sendbuf) \div size))

RunInit ==
    /\ args \in [world_size : 1..MaxWorkers, num_particles : 0..MaxParticles,
                 steps : StepCounts, write_frequency : 1..MaxFreq]
    /\ particle_file \in [1..args.num_particles -> RunSeeds]
    /\ coil_dir \in RunCoilDirs
    /\ pc = [r \in Ranks |-> "start"]
    /\ inflight = [r \in Ranks |-> <<>>]
    /\ local_particles = [r \in Ranks |-> [i \in 1..particles_per_rank |-> ZeroPt]]
    /\ geom = [r \in Ranks |-> [coils |-> <<>>, displacements |-> <<>>, e_roof |-> <<>>]]
    /\ step = [r \in Ranks |-> 0]
    /\ range_end = [r \in Ranks |-> 0]
    /\ pending = [r \in Ranks |-> {}]
    /\ out = [r \in Ranks |-> <<>>]
    /\ calls = [r \in Ranks |-> [i \in 1..particles_per_rank |-> 0]]
    /\ visits = [r \in Ranks |-> [i \in 1..particles_per_rank |-> 0]]
    /\ arrived = [r \in Ranks |-> 0]
    /\ reported = FALSE

\* main.rs 48-56: the root reads the particle file and scatters it
ReadAndScatterRoot ==
    /\ pc[0] = "start"
    /\ \/ /\ pc' = [pc EXCEPT ![0] = "panic_particles"]
          /\ UNCHANGED <<inflight, local_particles, arrived>>
       \/ LET particles == read_from_file(CoilFile(particle_file), args.num_particles).points
          IN  /\ inflight' = [r \in Ranks |->
                                 IF r = 0 THEN <<>>
                                 ELSE <<ScatterChunk(particles, args.world_size, r)>>]
              /\ local_particles' =
                     [local_particles EXCEPT ![0] = ScatterChunk(particles, args.world_size, 0)]
              /\ pc' = [pc EXCEPT ![0] = "barrier1"]
              /\ arrived' = [arrived EXCEPT ![0] = 1]
    /\ UNCHANGED <<args, particle_file, coil_dir, geom, step, range_end, pending, out,
                   calls, visits, reported, geo, stp>>

\* main.rs 57-60: the other ranks receive their chunk
ScatterInto(r) ==
    /\ r # 0
    /\ pc[r] = "start"
    /\ inflight[r] # <<>>
    /\ local_particles' = [local_particles EXCEPT ![r] = inflight[r][1]]
    /\ inflight' = [inflight EXCEPT ![r] = <<>>]
    /\ pc' = [pc EXCEPT ![r] = "barrier1"]
    /\ arrived' = [arrived EXCEPT ![r] = 1]
    /\ UNCHANGED <<args, particle_file, coil_dir, geom, step, range_end, pending, out,
                   calls, visits, reported, geo, stp>>

\* world.barrier(): returns once every rank has entered barrier n
BarrierOpen(n) == \A q \in Ranks : arrived[q] >= n

\* main.rs 63-87: first barrier, then every rank loads and precomputes the geometry
LoadGeometry(r) ==
    /\ pc[r] = "barrier1"
    /\ BarrierOpen(1)
    /\ LET got == read_coil_data_directory(coil_dir)
       IN  IF got.ok
           THEN /\ geom' = [geom EXCEPT ![r] =
                              [coils |-> got.coils,
                               displacements |-> compute_all_displacements(got.coils),
                               e_roof |-> compute_all_e_roof(
                                              compute_all_displacements(got.coils))]]
                /\ pc' = [pc EXCEPT ![r] = "barrier2"]
                /\ arrived' = [arrived EXCEPT ![r] = 2]
           ELSE /\ pc' = [pc EXCEPT ![r] = "panic_geometry"]
                /\ UNCHANGED <<geom, arrived>>
    /\ UNCHANGED <<args, particle_file, coil_dir, inflight, local_particles, step,
                   range_end, pending, out, calls, visits, reported, geo, stp>>

(***************************************************************************)
(* simulate_particles                                                      *)
(***************************************************************************)
Slots(r) == DOMAIN local_particles[r]

\* total_steps + 1 in u32: overflows for u32::MAX (a panic with overflow checks,
\* as in a debug build; 0 without them, as in a release build)
AddOneOverflows(total_steps) == total_steps.max
WrappingAddOne(total_steps) == IF total_steps.max THEN 0 ELSE total_steps.n + 1

\* write_points_to_file(&particles, output_dir, step, rank): one record of the
\* output directory, tagged (step, rank).  `ok` is the Result of the write; the
\* record keeps, as history, how often each slot had been visited and stepped.
Checkpoint(r, s, ok) ==
    [step |-> s, rank |-> r, ok |-> ok, data |-> local_particles[r],
     visits |-> visits[r], calls |-> calls[r]]

\* the Err arm of the match on write_points_to_file
WriteAbortsNever(ok) == FALSE

WriteAborts(ok) == ~ok

\* the divergence test of the closure: *particle != divergent_particle
IsActiveAlways(particle) == TRUE

IsActive(particle) == ~PointEq(particle, divergent_particle)

\* par_iter_mut().for_each(..) returns once the closure has run on every slot
StepJoinedEarly(r) == TRUE

StepJoined(r) == pending[r] = {}

\* the head of `for step in 1..total_steps + 1`, about to yield s
EnterIteration(r, s) ==
    IF s < range_end'[r]
    THEN /\ step' = [step EXCEPT ![r] = s]
         /\ pending' = [pending EXCEPT ![r] = Slots(r)]
         /\ pc' = [pc EXCEPT ![r] = "par"]
         /\ UNCHANGED arrived
    ELSE /\ pc' = [pc EXCEPT ![r] = "barrier3"]
         /\ arrived' = [arrived EXCEPT ![r] = 3]
         /\ UNCHANGED <<step, pending>>

\* main.rs 95-97, simulation.rs 151-155: second barrier, the checkpoint of step 0,
\* the range of the loop
StartSimulation(r) ==
    /\ pc[r] = "barrier2"
    /\ BarrierOpen(2)
    /\ \E ok \in BOOLEAN :
          /\ out' = [out EXCEPT ![r] = Append(@, Checkpoint(r, 0, ok))]
          /\ \/ /\ WriteAborts(ok)
                /\ pc' = [pc EXCEPT ![r] = "panic_write"]
                /\ UNCHANGED <<step, range_end, pending, arrived>>
             \/ /\ ~WriteAborts(ok)
                /\ AddOneOverflows(args.steps)
                /\ pc' = [pc EXCEPT ![r] = "panic_overflow"]
                /\ UNCHANGED <<step, range_end, pending, arrived>>
             \/ /\ ~WriteAborts(ok)
                /\ range_end' = [range_end EXCEPT ![r] = WrappingAddOne(args.steps)]
                /\ EnterIteration(r, 1)
    /\ UNCHANGED <<args, particle_file, coil_dir, inflight, local_particles, geom,
                   calls, visits, reported, geo, stp>>

\* simulation.rs 156-160: the closure of the parallel iterator on slot i
ParticleUpdate(r, i) ==
    /\ pc[r] = "par"
    /\ i \in pending[r]
    /\ pending' = [pending EXCEPT ![r] = @ \ {i}]
    /\ visits' = [visits EXCEPT ![r][i] = @ + 1]
    /\ IF IsActive(local_particles[r][i])
       THEN /\ \E q \in simulate_step(local_particles[r][i], geom[r].coils,
                                      geom[r].displacements, geom[r].e_roof,
                                      StepSize, RunFields) :
                  local_particles' = [local_particles EXCEPT ![r][i] = q]
            /\ calls' = [calls EXCEPT ![r][i] = @ + 1]
       ELSE UNCHANGED <<local_particles, calls>>
    /\ UNCHANGED <<args, particle_file, coil_dir, pc, inflight, geom, step, range_end,
                   out, arrived, reported, geo, stp>>

\* simulation.rs 160-167: the parallel iterator has returned; the checkpoint of
\* the step, if it is due; the next iteration or the end of the loop
StepEnd(r) ==
    /\ pc[r] = "par"
    /\ StepJoined(r)
    /\ UNCHANGED range_end
    /\ \/ /\ step[r] % args.write_frequency # 0
          /\ UNCHANGED out
          /\ EnterIteration(r, step[r] + 1)
       \/ /\ step[r] % args.write_frequency = 0
          /\ \E ok \in BOOLEAN :
                /\ out' = [out EXCEPT ![r] = Append(@, Checkpoint(r, step[r], ok))]
                /\ \/ /\ WriteAborts(ok)
                      /\ pc' = [pc EXCEPT ![r] = "panic_write"]
                      /\ UNCHANGED <<step, pending, arrived>>
                   \/ /\ ~WriteAborts(ok)
                      /\ EnterIteration(r, step[r] + 1)
    /\ UNCHANGED <<args, particle_file, coil_dir, inflight, local_particles, geom,
                   calls, visits, reported, geo, stp>>

\* main.rs 108-113: the last barrier; rank 0 logs "Finished simulation"
Finish(r) ==
    /\ pc[r] = "barrier3"
    /\ BarrierOpen(3)
    /\ pc' = [pc EXCEPT ![r] = "done"]
    /\ reported' = (reported \/ r = 0)
    /\ UNCHANGED <<args, particle_file, coil_dir, inflight, local_particles, geom, step,
                   range_end, pending, out, calls, visits, arrived, geo, stp>>

(***************************************************************************)
(* Specifications.                                                         *)
(***************************************************************************)
RunIdle ==
    /\ args = [world_size |-> 1, num_particles |-> 0, steps |-> U32(0),
               write_frequency |-> 1]
    /\ particle_file = <<>>
    /\ coil_dir = <<>>
    /\ pc = [r \in {0} |-> "idle"]
    /\ inflight = [r \in {0} |-> <<>>]
    /\ local_particles = [r \in {0} |-> <<>>]
    /\ geom = [r \in {0} |-> [coils |-> <<>>, displacements |-> <<>>, e_roof |-> <<>>]]
    /\ step = [r \in {0} |-> 0]
    /\ range_end = [r \in {0} |-> 0]
    /\ pending = [r \in {0} |-> {}]
    /\ out = [r \in {0} |-> <<>>]
    /\ calls = [r \in {0} |-> <<>>]
    /\ visits = [r \in {0} |-> <<>>]
    /\ arrived = [r \in {0} |-> 0]
    /\ reported = FALSE

Init == RunInit /\ geo = GeoIdle /\ stp = StpIdle

Next ==
    \/ ReadAndScatterRoot
    \/ \E r \in Ranks : ScatterInto(r)
    \/ \E r \in Ranks : LoadGeometry(r)
    \/ \E r \in Ranks : StartSimulation(r)
    \/ \E r \in Ranks : \E i \in Slots(r) : ParticleUpdate(r, i)
    \/ \E r \in Ranks : StepEnd(r)
    \/ \E r \in Ranks : Finish(r)

Spec == Init /\ [][Next]_vars

InitGeom == RunIdle /\ GeoInit /\ stp = StpIdle

NextGeom ==
    \/ GeoDisplacements /\ UNCHANGED <<runVars, stp>>
    \/ GeoERoof /\ UNCHANGED <<runVars, stp>>
    \/ GeoField /\ UNCHANGED <<runVars, stp>>

SpecGeom == InitGeom /\ [][NextGeom]_vars

InitStep == RunIdle /\ geo = GeoIdle /\ StpInit

NextStep == StpApply /\ UNCHANGED <<runVars, geo>>

SpecStep == InitStep /\ [][NextStep]_vars

(***************************************************************************)
(* Properties.                                                             *)
(***************************************************************************)
IsSentinel(p) == PointEq(p, divergent_particle)

\* C1: once a slot holds the divergent value, simulate_step is never applied to
\* it again and the slot keeps that value: over every step of the run, and in
\* every later checkpoint of the same worker (and in the worker's slice now).
C1_SentinelFrozen ==
    /\ [][\A r \in Ranks : \A i \in Slots(r) :
             IsSentinel(local_particles[r][i]) =>
                 /\ local_particles'[r][i] = local_particles[r][i]
                 /\ calls'[r][i] = calls[r][i]]_vars
    /\ [](\A r \in Ranks : \A j \in DOMAIN out[r] : \A i \in Slots(r) :
             IsSentinel(out[r][j].data[i]) =>
                 /\ local_particles[r][i] = out[r][j].data[i]
                 /\ calls[r][i] = out[r][j].calls[i]
                 /\ \A k \in DOMAIN out[r] :
                        k > j => /\ out[r][k].data[i] = out[r][j].data[i]
                                 /\ out[r][k].calls[i] = out[r][j].calls[i])

\* a particle was stepped, became divergent, was skipped by a later iteration,
\* and a checkpoint written after that iteration holds the divergent value
C1_Witness ==
    \E r \in Ranks : \E i \in Slots(r) : \E j \in DOMAIN out[r] :
        /\ IsSentinel(local_particles[r][i])
        /\ calls[r][i] >= 1
        /\ out[r][j].ok
        /\ IsSentinel(out[r][j].data[i])
        /\ out[r][j].visits[i] > out[r][j].calls[i]
        /\ out[r][j].calls[i] >= 1

\* the records of step 0 of ranks 0 .. n-1, one after the other
RECURSIVE StepZeroRecords(_)
StepZeroRecords(n) ==
    IF n = 0 THEN <<>> ELSE StepZeroRecords(n - 1) \o out[n - 1][1].data

Occurrences(s, v) == Cardinality({i \in DOMAIN s : s[i] = v})

\* C2: once every worker has written its checkpoint of step 0, these records
\* hold, between them, exactly the particles of the particle file (each as often
\* as the file holds it), and W * floor(P / W) <= P.
C2_PartitionComplete ==
    (\A r \in Ranks : out[r] # <<>> /\ out[r][1].ok) =>
        /\ \A v \in RunSeeds :
               Occurrences(StepZeroRecords(args.world_size), v)
                   = Occurrences(particle_file, v)
        /\ args.world_size * particles_per_rank <= args.num_particles

\* C3: a worker that has left the step loop has written one checkpoint for step 0
\* and one for every multiple of write_frequency in 1..total_steps, in this order
\* and no other, each tagged with the step and its rank and holding every slot.
C3_CheckpointSchedule ==
    \A r \in Ranks :
        pc[r] \in {"barrier3", "done"} =>
            /\ \A j \in DOMAIN out[r] :
                   /\ out[r][j].ok
                   /\ out[r][j].step = (j - 1) * args.write_frequency
                   /\ out[r][j].rank = r
                   /\ DOMAIN out[r][j].data = Slots(r)
            /\ IF args.steps.max
               THEN \E j \in DOMAIN out[r] : out[r][j].step = args.write_frequency
               ELSE Len(out[r]) = 1 + (args.steps.n \div args.write_frequency)

\* C4: every checkpoint of step N is written when each slot of the partition has
\* been visited by exactly N iterations, and inside iteration N a slot has been
\* visited N times if the parallel iterator is done with it and N - 1 times if not.
C4_StepBarrier ==
    \A r \in Ranks :
        /\ \A j \in DOMAIN out[r] : \A i \in Slots(r) :
               out[r][j].visits[i] = out[r][j].step
        /\ pc[r] = "par" =>
               \A i \in Slots(r) :
                   visits[r][i] = IF i \in pending[r] THEN step[r] - 1 ELSE step[r]

\* a partition of two slots whose checkpoint of step 2 is written, one of the
\* particles having been stepped twice
C4_Witness ==
    \E r \in Ranks : \E j \in DOMAIN out[r] :
        /\ Cardinality(Slots(r)) >= 2
        /\ out[r][j].ok
        /\ out[r][j].step = 2
        /\ \E i \in Slots(r) : out[r][j].calls[i] = 2

\* some stage of the RK4 step had a zero or non-finite field
Degenerate(run) == run.k1.nan \/ run.k2.nan \/ run.k3.nan \/ run.k4.nan

\* C5: a step one of whose stages has a zero field norm, or evaluates the field
\* on a coil node, returns the divergent value, and no step returns a point with
\* a non-finite coordinate.
C5_DegenerateDiverges ==
    stp.pc = "out" =>
        /\ ~stp.run.result.nan
        /\ Degenerate(stp.run) => IsSentinel(stp.run.result)

\* The distance from p to the nearest point of the circle of radius MAJOR_RADIUS
\* in the plane z = 0, compared with `minor`.  With n = |(x, y, 0)| the squared
\* distance is (n - R)^2 + z^2; on the axis (n = 0) every point of the circle is
\* nearest and it is R^2 + z^2.
FartherThan(p, minor) ==
    LET n2 == p.x * p.x + p.y * p.y
        L  == n2 + p.z * p.z + MAJOR_RADIUS * MAJOR_RADIUS - minor * minor
    IN  /\ L > 0
        /\ L * L > 4 * MAJOR_RADIUS * MAJOR_RADIUS * n2

AtDistance(p, minor) ==
    LET n2 == p.x * p.x + p.y * p.y
        L  == n2 + p.z * p.z + MAJOR_RADIUS * MAJOR_RADIUS - minor * minor
    IN  /\ L >= 0
        /\ L * L = 4 * MAJOR_RADIUS * MAJOR_RADIUS * n2

\* C6: the step returns the divergent value exactly when its RK4 result lies
\* farther than MINOR_RADIUS from the nearest point of the major-radius circle;
\* at exactly MINOR_RADIUS it returns the RK4 result.
C6_ContainmentExclusive ==
    (stp.pc = "out" /\ ~stp.run.rk4.nan) =>
        /\ IsSentinel(stp.run.result) <=> FartherThan(stp.run.rk4, MINOR_RADIUS)
        /\ AtDistance(stp.run.rk4, MINOR_RADIUS) => stp.run.result = stp.run.rk4

\* C7: with a coil file of fewer than 2 nodes in the directory no rank gets past
\* the load of the geometry and nothing is written; the coils of a rank that has
\* loaded its geometry have at least 2 nodes each.
C7_ShortCoilRejected ==
    \A r \in Ranks :
        /\ (\E f \in DOMAIN coil_dir : coil_dir[f].readable /\ Len(coil_dir[f].points) < 2)
               => /\ pc[r] \in {"start", "barrier1", "panic_particles", "panic_geometry"}
                  /\ out[r] = <<>>
        /\ pc[r] \in {"barrier2", "par", "barrier3", "done", "panic_write", "panic_overflow"}
               => \A c \in DOMAIN geom[r].coils : Len(geom[r].coils[c]) >= 2

\* C8: a failed checkpoint write is the last thing its worker does: the write is
\* not tried again, no later checkpoint is written, no slot is visited or stepped
\* afterwards, the worker stays in its panic, and rank 0 never reports the end of
\* the simulation.
C8_WriteFailureAborts ==
    \A r \in Ranks : \A j \in DOMAIN out[r] :
        ~out[r][j].ok =>
            /\ j = Len(out[r])
            /\ pc[r] = "panic_write"
            /\ step[r] = out[r][j].step
            /\ local_particles[r] = out[r][j].data
            /\ visits[r] = out[r][j].visits
            /\ calls[r] = out[r][j].calls
            /\ ~reported

\* the write of a step >= 1 has failed on a rank other than 0, and rank 0 has
\* finished its own loop and waits in the last barrier
C8_Witness ==
    \E r \in Ranks : \E j \in DOMAIN out[r] :
        /\ r # 0
        /\ ~out[r][j].ok
        /\ out[r][j].step >= 1
        /\ pc[0] = "barrier3"

SegmentCount(coil) == IF Len(coil) < 2 THEN 0 ELSE Len(coil) - 1

\* C9: for every coil of N nodes the displacement and e_roof arrays have N - 1
\* entries (none for N < 2), entry i is nodes[i+1] - nodes[i] and its unit vector,
\* and the field evaluator visits, for segment i of coil c, the nodes (i, i+1) of
\* coil c together with displacements[c][i] and e_roof[c][i].
C9_SegmentAlignment ==
    /\ geo.pc \in {"displacements", "e_roof", "field"} =>
           /\ Len(geo.displacements) = Len(geo.coils)
           /\ \A c \in DOMAIN geo.coils :
                  /\ Len(geo.displacements[c]) = SegmentCount(geo.coils[c])
                  /\ \A i \in 1..SegmentCount(geo.coils[c]) :
                         geo.displacements[c][i]
                             = get_displacement(geo.coils[c][i + 1], geo.coils[c][i])
    /\ geo.pc \in {"e_roof", "field"} =>
           /\ Len(geo.e_roof) = Len(geo.coils)
           /\ \A c \in DOMAIN geo.coils :
                  /\ Len(geo.e_roof[c]) = SegmentCount(geo.coils[c])
                  /\ \A i \in 1..SegmentCount(geo.coils[c]) :
                         geo.e_roof[c][i]
                             = get_unit_vector(get_displacement(geo.coils[c][i + 1],
                                                                geo.coils[c][i]))
    /\ geo.pc = "field" =>
           /\ Len(geo.segments) = Len(geo.coils)
           /\ \A c \in DOMAIN geo.coils :
                  /\ Len(geo.segments[c]) = SegmentCount(geo.coils[c])
                  /\ \A i \in 1..SegmentCount(geo.coils[c]) :
                         /\ geo.segments[c][i].n0 = geo.coils[c][i]
                         /\ geo.segments[c][i].n1 = geo.coils[c][i + 1]
                         /\ geo.segments[c][i].d = geo.displacements[c][i]
                         /\ geo.segments[c][i].e = geo.e_roof[c][i]

\* the field has been evaluated over a coil of one node followed by a coil of
\* three nodes whose two segments differ
C9_Witness ==
    /\ geo.pc = "field"
    /\ Len(geo.coils) = 2
    /\ Len(geo.coils[1]) = 1
    /\ Len(geo.coils[2]) = 3
    /\ geo.segments[2][1].d # geo.segments[2][2].d
    /\ ~geo.segments[2][1].e.nan

\* C10: no worker stops in the step loop, and a worker that has reached the last
\* barrier has performed exactly total_steps iterations.
C10_RunsAllSteps ==
    \A r \in Ranks :
        /\ pc[r] # "panic_overflow"
        /\ pc[r] \in {"barrier3", "done"} =>
               /\ ~args.steps.max
               /\ step[r] = args.steps.n

====
